---- MODULE Spec2Model ----
(***************************************************************************)
(* Market-construction and equilibrium-matching engine of mkt_env          *)
(* (backend/market.py, backend/main.py, backend/models.py).                *)
(*                                                                         *)
(* Numbers.  Prices, costs and counts are Python ints.  Every float the    *)
(* code produces here is an int or an int divided by 2.0, so a float f is  *)
(* held exactly as the integer 2*f ("half units"): float(i) is 2*i and     *)
(* (a + b) / 2.0 is a + b.  A raw draw of random.gauss is held in quarter  *)
(* units (the integer 4*x), so that values below, at and above a rounding  *)
(* tie all occur.                                                          *)
(*                                                                         *)
(* Sequences are 1-based: Python's demand[i] is demand[i + 1] here.        *)
(***************************************************************************)
EXTENDS Integers, Sequences, FiniteSets, TLC

VARIABLES
    demand,         \* find_equilibrium / compute_total_surplus_max argument
    supply,         \* find_equilibrium / compute_total_surplus_max argument
    pc,             \* position of the market computation
    equilibrium,    \* (eq_quantity, eq_price) as returned by find_equilibrium
    q_star,         \* q_star argument of compute_total_surplus_max
    total_surplus,  \* float returned by compute_total_surplus_max (half units)
    segments,       \* sample_from_segments argument
    spc,            \* position of sample_from_segments
    seg_i,          \* loop index i of "for i, seg in enumerate(segments)" (0-based)
    seg_k,          \* values already drawn for segments[seg_i]
    vals,           \* the local list vals
    last_draw,      \* the last rng draw: its segment, raw value and appended value
    sample_ret,     \* outcome of the call: returned list or raised error
    request,        \* per run: the parameters of the request, as received
    rpc,            \* per run: position of the simulation run
    attempt,        \* per run: how many times the request has been started
    side_k,         \* per run: rng draws already made for the side being generated
    buyers,         \* per run: the local list buyers of build_buyers_and_sellers
    sellers,        \* per run: the local list sellers of build_buyers_and_sellers
    schedules,      \* per run: (buyers_sorted, sellers_sorted) as returned, or None
    outcome,        \* per run: equilibrium and surplus of simulate_market, or None
    previous,       \* per run: what the preceding attempt of the same request produced
    rngs,           \* the random.Random objects: stream and calls made so far
    oracle,         \* the generators' streams, as far as they have been observed
    draw_log,       \* per run: the rng draws in program order
    return_site,    \* the return of find_equilibrium that was taken, or "none"
    tables,         \* the calls of create_schedule_table: argument and result
    analysis,       \* dict returned by analyze_market_structure, or None
    script_eq       \* (matches, price) of the script's find_equilibrium, or None

mvars == <<demand, supply, pc, equilibrium, q_star, total_surplus>>
svars == <<segments, spc, seg_i, seg_k, vals, last_draw, sample_ret>>
bvars == <<request, rpc, attempt, side_k, buyers, sellers, schedules, outcome,
           previous, rngs, oracle, draw_log>>
tvars == <<return_site, tables, analysis, script_eq>>
vars == <<mvars, svars, bvars, tvars>>

(***************************************************************************)
(* Bounds of the model                                                     *)
(***************************************************************************)
MaxLen == 3         \* longest schedule
MaxPrice == 2       \* largest WTP / cost in a schedule
MaxSegments == 2    \* longest segment list
MaxSegN == 2        \* largest seg.n
SegMaxPrice == 2    \* largest p_min / p_max of a segment
GaussMargin == 2    \* raw normal draws range this far beyond the segment bounds
MaxCount == 2       \* largest legacy num_buyers / num_sellers of a request
LegacyTop == 3      \* largest legacy price of a request

\* Python's None; an Optional value v is held as <<v>>
None == <<>>
Some(v) == <<v>>

\* the simulation runs (requests) of the model
Runs == {"a", "b"}

\* the random.Random objects there can be: one local to each run, and the
\* hidden instance behind the functions of the random module
RngHandles == Runs \cup {"global"}

\* neither the matcher nor a formatter or analyzer has been called
ToolsIdle ==
    /\ return_site = "none"
    /\ tables = <<>>
    /\ analysis = None
    /\ script_eq = None

\* no run is under way
BuilderIdle ==
    /\ request = [r \in Runs |-> None]
    /\ rpc = [r \in Runs |-> "off"]
    /\ attempt = [r \in Runs |-> 0]
    /\ side_k = [r \in Runs |-> 0]
    /\ buyers = [r \in Runs |-> <<>>]
    /\ sellers = [r \in Runs |-> <<>>]
    /\ schedules = [r \in Runs |-> None]
    /\ outcome = [r \in Runs |-> None]
    /\ previous = [r \in Runs |-> None]
    /\ rngs = [h \in RngHandles |-> None]
    /\ oracle = <<>>
    /\ draw_log = [r \in Runs |-> <<>>]

Min2(a, b) == IF a <= b THEN a ELSE b
Max2(a, b) == IF a >= b THEN a ELSE b

SeqsUpTo(S, n) == UNION {[1..k -> S] : k \in 0..n}

Prices == 0..MaxPrice
Schedules == SeqsUpTo(Prices, MaxLen)

\* float(i), in half units
FloatOfInt(i) == 2 * i
\* (a + b) / 2.0, in half units
Midpoint(a, b) == a + b

(***************************************************************************)
(* find_equilibrium (backend/market.py)                                    *)
(***************************************************************************)

\* The scan "for wtp, cost in zip(demand, supply)": state is
\* (matches, last_wtp, last_cost); i is the 1-based position of the next pair.
RECURSIVE ScanBreakless(_, _, _, _)
ScanBreakless(d, s, i, st) ==
    IF i > Min2(Len(d), Len(s)) THEN st
    ELSE IF d[i] >= s[i]
         THEN ScanBreakless(d, s, i + 1,
                  [matches |-> st.matches + 1, last_wtp |-> d[i], last_cost |-> s[i]])
         ELSE ScanBreakless(d, s, i + 1, st)

RECURSIVE ScanFrom(_, _, _, _)
ScanFrom(d, s, i, st) ==
    IF i > Min2(Len(d), Len(s)) THEN st
    ELSE IF d[i] >= s[i]
         THEN ScanFrom(d, s, i + 1,
                  [matches |-> st.matches + 1, last_wtp |-> d[i], last_cost |-> s[i]])
         ELSE st

\* a scan without the "else: break"
ScanAll(d, s) ==
    ScanBreakless(d, s, 1, [matches |-> 0, last_wtp |-> None, last_cost |-> None])

\* a scan that needs the buyer strictly above the seller
RECURSIVE ScanStrictFrom(_, _, _, _)
ScanStrictFrom(d, s, i, st) ==
    IF i > Min2(Len(d), Len(s)) THEN st
    ELSE IF d[i] > s[i]
         THEN ScanStrictFrom(d, s, i + 1,
                  [matches |-> st.matches + 1, last_wtp |-> d[i], last_cost |-> s[i]])
         ELSE st

ScanStrict(d, s) ==
    ScanStrictFrom(d, s, 1, [matches |-> 0, last_wtp |-> None, last_cost |-> None])

\* a scan that looks at the first pair only
ScanFirstPair(d, s) ==
    IF Min2(Len(d), Len(s)) >= 1 /\ d[1] >= s[1]
    THEN [matches |-> 1, last_wtp |-> d[1], last_cost |-> s[1]]
    ELSE [matches |-> 0, last_wtp |-> None, last_cost |-> None]

\* lines 219-230
ScanMatches(d, s) ==
    ScanFrom(d, s, 1, [matches |-> 0, last_wtp |-> None, last_cost |-> None])

\* every empty case answered with price 0.0
EmptySideResultZero(d, s) ==
    [quantity |-> 0, price |-> FloatOfInt(0)]

\* lines 202-212: the three empty-schedule returns
EmptySideResult(d, s) ==
    IF d = <<>> /\ s = <<>> THEN [quantity |-> 0, price |-> FloatOfInt(0)]
    ELSE IF d = <<>>
         THEN [quantity |-> 0,
               price |-> IF s # <<>> THEN FloatOfInt(s[1]) ELSE FloatOfInt(0)]
         ELSE [quantity |-> 0, price |-> FloatOfInt(d[1])]

\* the best bid alone as reference price
NoTradeResultBestBid(d, s) ==
    [quantity |-> 0, price |-> FloatOfInt(d[1])]

\* lines 215-217 and 232-236: quantity 0 with the midpoint of the best offers
NoTradeResult(d, s) ==
    [quantity |-> 0, price |-> Midpoint(d[1], s[1])]

\* full trade priced from the first pair
FullTradeResultFirstPair(d, s, st) ==
    [quantity |-> st.matches, price |-> Midpoint(d[1], s[1])]

\* lines 241-245: every comparable pair matched
FullTradeResult(d, s, st) ==
    [quantity |-> st.matches, price |-> Midpoint(st.last_wtp, st.last_cost)]

\* partial trade priced like a full trade
PartialTradeResultMarginalPair(d, s, st) ==
    [quantity |-> st.matches, price |-> Midpoint(st.last_wtp, st.last_cost)]

\* partial trade priced from the last matched buyer and the first unmatched seller
PartialTradeResultNextSeller(d, s, st) ==
    [quantity |-> st.matches, price |-> Midpoint(st.last_wtp, s[st.matches + 1])]

\* partial trade priced at the last matched buyer's valuation
PartialTradeResultLastBuyer(d, s, st) ==
    [quantity |-> st.matches, price |-> FloatOfInt(st.last_wtp)]

\* lines 247-253: the scan stopped at a non-matching pair
PartialTradeResult(d, s, st) ==
    LET next_unmatched_buyer ==
            IF st.matches < Len(d) THEN d[st.matches + 1] ELSE st.last_wtp
    IN  [quantity |-> st.matches, price |-> Midpoint(next_unmatched_buyer, st.last_cost)]

\* lines 185-253
find_equilibrium(d, s) ==
    IF d = <<>> \/ s = <<>> THEN EmptySideResult(d, s)
    ELSE IF d[1] < s[1] THEN NoTradeResult(d, s)
    ELSE LET st == ScanMatches(d, s)
             n_comparable == Min2(Len(d), Len(s))
         IN  IF st.matches = 0 THEN NoTradeResult(d, s)
             ELSE IF st.matches = n_comparable THEN FullTradeResult(d, s, st)
             ELSE PartialTradeResult(d, s, st)

\* the return statement find_equilibrium leaves by: line 204, 208 or 212 for
\* an empty schedule, line 217 for the early feasibility check, line 236
\* for "matches == 0" after the scan, line 245 full trade, line 253 partial
ReturnSite(d, s) ==
    IF d = <<>> \/ s = <<>> THEN "empty"
    ELSE IF d[1] < s[1] THEN "infeasible"
    ELSE LET st == ScanMatches(d, s)
             n_comparable == Min2(Len(d), Len(s))
         IN  IF st.matches = 0 THEN "no_match"
             ELSE IF st.matches = n_comparable THEN "full"
             ELSE "partial"

(***************************************************************************)
(* compute_total_surplus_max (backend/market.py)                           *)
(***************************************************************************)

\* a sum that clamps each unit's term at 0
RECURSIVE SumSurplusClamped(_, _, _)
SumSurplusClamped(d, s, n) ==
    IF n = 0 THEN 0 ELSE SumSurplusClamped(d, s, n - 1) + Max2(0, d[n] - s[n])

\* line 278: sum(demand[i] - supply[i] for i in range(n)), Python indices 0..n-1
RECURSIVE SumSurplus(_, _, _)
SumSurplus(d, s, n) ==
    IF n = 0 THEN 0 ELSE SumSurplus(d, s, n - 1) + (d[n] - s[n])

\* lines 256-281
compute_total_surplus_max(d, s, q) ==
    IF q <= 0 THEN FloatOfInt(0)
    ELSE LET n_tradeable == Min2(q, Min2(Len(d), Len(s)))
         IN  IF n_tradeable = 0 THEN FloatOfInt(0)
             ELSE FloatOfInt(SumSurplus(d, s, n_tradeable))


(***************************************************************************)
(* Segments and sample_from_segments (backend/market.py)                   *)
(***************************************************************************)

\* a Segment; mean and sd are floats (half units) or None
Seg(n, p_min, p_max, dist, mean, sd) ==
    [n |-> n, p_min |-> p_min, p_max |-> p_max, dist |-> dist, mean |-> mean, sd |-> sd]

\* a validation that leaves the standard deviation unchecked
_validate_segment_without_sd(seg) ==
    IF seg.n < 0 THEN "n >= 0"
    ELSE IF seg.p_min > seg.p_max THEN "p_min <= p_max"
    ELSE IF seg.dist \notin {"uniform", "normal"} THEN "dist"
    ELSE IF seg.dist = "normal" /\ seg.mean # None
            /\ ~(FloatOfInt(seg.p_min) <= seg.mean[1]
                 /\ seg.mean[1] <= FloatOfInt(seg.p_max))
         THEN "p_min <= mean <= p_max"
    ELSE "ok"

\* lines 24-36: "ok", or the constraint whose violation raises ValueError
_validate_segment(seg) ==
    IF seg.n < 0 THEN "n >= 0"
    ELSE IF seg.p_min > seg.p_max THEN "p_min <= p_max"
    ELSE IF seg.dist \notin {"uniform", "normal"} THEN "dist"
    ELSE IF seg.dist = "normal" /\ seg.mean # None
            /\ ~(FloatOfInt(seg.p_min) <= seg.mean[1]
                 /\ seg.mean[1] <= FloatOfInt(seg.p_max))
         THEN "p_min <= mean <= p_max"
    ELSE IF seg.dist = "normal" /\ seg.sd # None /\ seg.sd[1] <= 0 THEN "sd > 0"
    ELSE "ok"

\* Python 3 round(x) of a float x = x4 / 4: nearest integer, a tie to the even one
round(x4) ==
    LET f == x4 \div 4
        r == x4 % 4
    IN  IF r < 2 THEN f
        ELSE IF r > 2 THEN f + 1
        ELSE IF f % 2 = 0 THEN f ELSE f + 1

\* a clamp that forgets the lower bound
_clamp_int_upper_only(x4, lo, hi) == Min2(round(x4), hi)

\* lines 39-42
_clamp_int(x4, lo, hi) ==
    LET xi == round(x4)
    IN  Max2(lo, Min2(xi, hi))

\* line 83, rng.randint(a, b): any integer of a..b
RandInts(a, b) == a..b

\* line 91, rng.gauss(mean, sigma) with sigma > 0: mean and sigma weigh the
\* draws, any real can come; here the quarters within GaussMargin of the
\* segment bounds
GaussDraws(seg) == (4 * (seg.p_min - GaussMargin))..(4 * (seg.p_max + GaussMargin))

\* Segment lists of the model: every single segment of SegmentPool, and the
\* lists of up to MaxSegments segments of BlockPool
ValidRanges == {r \in (0..SegMaxPrice) \X (0..SegMaxPrice) : r[1] <= r[2]}

InvalidSegments ==
    { Seg(0 - 1, 0, 1, "uniform", None, None),
      Seg(1, 1, 0, "uniform", None, None),
      Seg(1, 0, 1, "triangular", None, None),
      Seg(1, 0, 1, "normal", Some(FloatOfInt(2)), None),
      Seg(1, 0, 1, "normal", None, Some(0)) }

SegmentPool ==
    { Seg(n, r[1], r[2], "uniform", None, None) : n \in 0..MaxSegN, r \in ValidRanges }
    \cup { Seg(n, r[1], r[2], "normal", None, None) : n \in 0..MaxSegN, r \in ValidRanges }
    \cup { Seg(n, r[1], r[2], "normal", Some(r[1] + r[2]), Some(1)) :
               n \in 0..MaxSegN, r \in ValidRanges }
    \cup InvalidSegments

\* the segments of the longer lists: a uniform block low in the price range,
\* a normal block at its top, and two invalid segments
BlockPool ==
    { Seg(n, 0, 1, "uniform", None, None) : n \in 0..MaxSegN }
    \cup { Seg(n, SegMaxPrice, SegMaxPrice, "normal", None, None) : n \in 0..MaxSegN }
    \cup { Seg(0 - 1, 0, 1, "uniform", None, None),
           Seg(1, 0, 1, "normal", None, Some(0)) }

SegmentLists ==
    {<<>>} \cup {<<seg>> : seg \in SegmentPool}
           \cup UNION {[1..k -> BlockPool] : k \in 2..MaxSegments}

(***************************************************************************)
(* simulate_market (backend/main.py), match and surplus steps              *)
(***************************************************************************)

\* models.py: Equilibrium.quantity ge=0, Equilibrium.price ge=0
EquilibriumAccepts(eq) == eq.quantity >= 0 /\ eq.price >= 0

\* models.py: Surplus.total_max ge=0
SurplusAccepts(ts) == ts >= 0

\* the surplus taken over every buyer instead of the traded units
SimulateSurplusAllBuyers(d, s, eq) == compute_total_surplus_max(d, s, Len(d))

\* main.py line 142
SimulateSurplus(d, s, eq) == compute_total_surplus_max(d, s, eq.quantity)

(***************************************************************************)
(* The matcher and the surplus calculator as a state machine               *)
(***************************************************************************)
QStars == (0 - 2)..(MaxLen + 1)

Init ==
    /\ demand \in Schedules
    /\ supply \in Schedules
    /\ pc = "input"
    /\ equilibrium = None
    /\ q_star = None
    /\ total_surplus = None
    /\ segments = <<>>
    /\ spc = "idle"
    /\ seg_i = 0
    /\ seg_k = 0
    /\ vals = <<>>
    /\ last_draw = [kind |-> "none"]
    /\ sample_ret = [kind |-> "none"]
    /\ BuilderIdle
    /\ ToolsIdle

\* eq_quantity, eq_price = find_equilibrium(buyers_sorted, sellers_sorted)
\* equilibrium = Equilibrium(quantity=eq_quantity, price=eq_price)
FindEquilibrium ==
    /\ pc = "input"
    /\ equilibrium' = find_equilibrium(demand, supply)
    /\ pc' = IF EquilibriumAccepts(equilibrium') THEN "matched" ELSE "rejected"
    /\ return_site' = ReturnSite(demand, supply)
    /\ UNCHANGED <<demand, supply, q_star, total_surplus, svars, bvars,
                   tables, analysis, script_eq>>

\* total_surplus = compute_total_surplus_max(buyers_sorted, sellers_sorted, eq_quantity)
\* surplus = Surplus(total_max=total_surplus)
SurplusOfEquilibrium ==
    /\ pc = "matched"
    /\ q_star' = equilibrium.quantity
    /\ total_surplus' = SimulateSurplus(demand, supply, equilibrium)
    /\ pc' = IF SurplusAccepts(total_surplus') THEN "done" ELSE "rejected"
    /\ UNCHANGED <<demand, supply, equilibrium, svars, bvars, tvars>>

\* a direct call compute_total_surplus_max(demand, supply, q) with any q
SurplusCall ==
    /\ pc = "input"
    /\ \E q \in QStars :
          /\ q_star' = q
          /\ total_surplus' = compute_total_surplus_max(demand, supply, q)
    /\ pc' = "surplus"
    /\ UNCHANGED <<demand, supply, equilibrium, svars, bvars, tvars>>

Next ==
    \/ FindEquilibrium
    \/ SurplusOfEquilibrium
    \/ SurplusCall

Spec == Init /\ [][Next]_vars


(***************************************************************************)
(* Vocabulary of the properties                                            *)
(***************************************************************************)
NComparable == Min2(Len(demand), Len(supply))

Matched == pc \in {"matched", "done"}

\* the length of the longest leading run of matching pairs
LeadingRun ==
    CHOOSE k \in 0..NComparable :
        /\ \A i \in 1..k : demand[i] >= supply[i]
        /\ k < NComparable => demand[k + 1] < supply[k + 1]

SortedDemand == \A i \in 1..(Len(demand) - 1) : demand[i] >= demand[i + 1]
SortedSupply == \A i \in 1..(Len(supply) - 1) : supply[i] <= supply[i + 1]

\* C1: the quantity returned by find_equilibrium is the length of the longest
\* leading run of matching pairs: it lies in 0..min(len(demand), len(supply)),
\* every pair before it matches, and if it is below the minimum length the
\* pair at that position does not match.
C1_QuantityIsLeadingRun ==
    Matched =>
        /\ equilibrium.quantity \in 0..NComparable
        /\ \A i \in 1..equilibrium.quantity : demand[i] >= supply[i]
        /\ equilibrium.quantity < NComparable =>
              demand[equilibrium.quantity + 1] < supply[equilibrium.quantity + 1]

\* the scan stopped before a later pair that would match
C1_Witness ==
    /\ pc = "matched"
    /\ equilibrium.quantity >= 1
    /\ equilibrium.quantity < NComparable
    /\ \E j \in (equilibrium.quantity + 2)..NComparable : demand[j] >= supply[j]

\* C2: partial trade: with demand[0] >= supply[0] and the scan stopped at a
\* non-matching pair, quantity is the number of matches and the price is the
\* midpoint of the first unmatched buyer and the last matched seller.
C2_PartialTradePrice ==
    (Matched /\ demand # <<>> /\ supply # <<>> /\ demand[1] >= supply[1]
        /\ LeadingRun < NComparable) =>
        /\ LeadingRun >= 1
        /\ equilibrium.quantity = LeadingRun
        /\ equilibrium.price = demand[LeadingRun + 1] + supply[LeadingRun]

C2_Witness ==
    /\ pc = "matched"
    /\ equilibrium.quantity >= 1
    /\ equilibrium.quantity < NComparable
    /\ demand[equilibrium.quantity + 1] # demand[equilibrium.quantity]

\* C3: full trade: when every comparable pair matches, quantity is
\* min(len(demand), len(supply)) and the price is the midpoint of the last
\* matched pair, whatever is left unmatched on the longer side.
C3_FullTradePrice ==
    (Matched /\ NComparable >= 1 /\ LeadingRun = NComparable) =>
        /\ equilibrium.quantity = NComparable
        /\ equilibrium.price = demand[NComparable] + supply[NComparable]

\* a full trade with unmatched participants left on the longer side
C3_Witness ==
    /\ pc = "matched"
    /\ equilibrium.quantity = NComparable
    /\ NComparable >= 2
    /\ Len(demand) # Len(supply)
    /\ equilibrium.price # demand[1] + supply[1]

C5_EmptySidePolicy ==
    /\ (pc = "input" /\ (demand = <<>> \/ supply = <<>>)) => ENABLED FindEquilibrium
    /\ (Matched /\ demand = <<>> /\ supply = <<>>) =>
          equilibrium = [quantity |-> 0, price |-> 0]
    /\ (Matched /\ demand = <<>> /\ supply # <<>>) =>
          equilibrium = [quantity |-> 0, price |-> 2 * supply[1]]
    /\ (Matched /\ demand # <<>> /\ supply = <<>>) =>
          equilibrium = [quantity |-> 0, price |-> 2 * demand[1]]

C5_Witness ==
    /\ pc = "matched"
    /\ demand = <<>>
    /\ supply # <<>>
    /\ equilibrium.price > 0

\* C6: no feasible trade: for non-empty schedules with demand[0] < supply[0]
\* the result is quantity 0 with the midpoint of the best bid and best ask.
C6_NoFeasibleTrade ==
    (Matched /\ demand # <<>> /\ supply # <<>> /\ demand[1] < supply[1]) =>
        equilibrium = [quantity |-> 0, price |-> demand[1] + supply[1]]

C6_Witness ==
    /\ pc = "matched"
    /\ demand # <<>> /\ supply # <<>>
    /\ demand[1] < supply[1]
    /\ demand[1] > 0
    /\ \E j \in 2..NComparable : demand[j] >= supply[j]

\* the sum of demand[i] - supply[i] over the positions in S, last position first
RECURSIVE UnitSurplusOver(_)
UnitSurplusOver(S) ==
    IF S = {} THEN 0
    ELSE LET i == CHOOSE j \in S : \A l \in S : l <= j
         IN  (demand[i] - supply[i]) + UnitSurplusOver(S \ {i})

\* C7: compute_total_surplus_max(demand, supply, q) is 0.0 for q <= 0 and
\* otherwise the unclamped sum of demand[i] - supply[i] over the first
\* min(q, len(demand), len(supply)) positions.
C7_SurplusSum ==
    pc = "surplus" =>
        /\ q_star <= 0 => total_surplus = 0
        /\ q_star > 0 =>
              total_surplus =
                  2 * UnitSurplusOver(1..Min2(q_star, NComparable))

\* q beyond both schedules, a negative term included
C7_Witness ==
    /\ pc = "surplus"
    /\ q_star > Len(demand) /\ q_star > Len(supply)
    /\ NComparable >= 2
    /\ \E i \in 1..NComparable : demand[i] < supply[i]
    /\ \E i \in 1..NComparable : demand[i] > supply[i]
    /\ total_surplus < 0

\* C8: the surplus computed from the matcher's own quantity is >= 0, so the
\* Surplus model (total_max >= 0) never rejects it.
C8_SurplusNonNegative ==
    /\ pc # "rejected"
    /\ pc = "done" => (q_star = equilibrium.quantity /\ total_surplus >= 0)

C8_Witness ==
    /\ pc = "done"
    /\ total_surplus > 0
    /\ equilibrium.quantity < NComparable
    /\ \E i \in 1..NComparable : demand[i] < supply[i]


(***************************************************************************)
(* sample_from_segments as a state machine: one step per loop iteration    *)
(* head and one per rng draw                                               *)
(***************************************************************************)
InitSampler ==
    /\ segments \in SegmentLists
    /\ spc = "call"
    /\ seg_i = 0
    /\ seg_k = 0
    /\ vals = <<>>
    /\ last_draw = [kind |-> "none"]
    /\ sample_ret = [kind |-> "none"]
    /\ demand = <<>>
    /\ supply = <<>>
    /\ pc = "idle"
    /\ equilibrium = None
    /\ q_star = None
    /\ total_surplus = None
    /\ BuilderIdle
    /\ ToolsIdle

CurrentSeg == segments[seg_i + 1]

\* the loop moves past segment i: the next iteration, or "return vals" (line 95)
LoopAdvance(i, new_vals) ==
    IF i + 1 < Len(segments)
    THEN /\ spc' = "head"
         /\ seg_i' = i + 1
         /\ sample_ret' = sample_ret
    ELSE /\ spc' = "returned"
         /\ seg_i' = i
         /\ sample_ret' = [kind |-> "return", vals |-> new_vals]

\* lines 64-67
SampleCall ==
    /\ spc = "call"
    /\ IF segments = <<>>
       THEN /\ spc' = "returned"
            /\ sample_ret' = [kind |-> "return", vals |-> <<>>]
       ELSE /\ spc' = "head"
            /\ sample_ret' = sample_ret
    /\ UNCHANGED <<segments, seg_i, seg_k, vals, last_draw, mvars, bvars, tvars>>

\* lines 69-73: the segment is invalid, ValueError(f"Invalid segment {i}: {e}")
SampleRaise ==
    /\ spc = "head"
    /\ _validate_segment(CurrentSeg) # "ok"
    /\ spc' = "raised"
    /\ sample_ret' = [kind |-> "raise", index |-> seg_i,
                      constraint |-> _validate_segment(CurrentSeg)]
    /\ UNCHANGED <<segments, seg_i, seg_k, vals, last_draw, mvars, bvars, tvars>>

\* lines 75-76: a valid segment with n == 0 is skipped
SampleSkipEmpty ==
    /\ spc = "head"
    /\ _validate_segment(CurrentSeg) = "ok"
    /\ CurrentSeg.n = 0
    /\ LoopAdvance(seg_i, vals)
    /\ UNCHANGED <<segments, seg_k, vals, last_draw, mvars, bvars, tvars>>

\* lines 78-88: a valid segment with n > 0 enters its drawing loop
SampleEnter ==
    /\ spc = "head"
    /\ _validate_segment(CurrentSeg) = "ok"
    /\ CurrentSeg.n > 0
    /\ spc' = "draw"
    /\ seg_k' = 0
    /\ UNCHANGED <<segments, seg_i, vals, last_draw, sample_ret, mvars, bvars, tvars>>

\* a list kept sorted on insertion
InsertSorted(l, v) ==
    LET k == Cardinality({j \in 1..Len(l) : l[j] <= v})
    IN  SubSeq(l, 1, k) \o <<v>> \o SubSeq(l, k + 1, Len(l))

\* lines 83 and 92: vals.append(v)
ListAppend(l, v) == Append(l, v)

\* after a draw: the next draw of this segment, or the loop moves on
AfterDraw(new_vals) ==
    IF seg_k + 1 < CurrentSeg.n
    THEN /\ seg_k' = seg_k + 1
         /\ UNCHANGED <<spc, seg_i, sample_ret>>
    ELSE /\ seg_k' = 0
         /\ LoopAdvance(seg_i, new_vals)

\* lines 82-83: vals.append(rng.randint(seg.p_min, seg.p_max))
SampleDrawUniform ==
    /\ spc = "draw"
    /\ CurrentSeg.dist = "uniform"
    /\ \E v \in RandInts(CurrentSeg.p_min, CurrentSeg.p_max) :
          /\ vals' = ListAppend(vals, v)
          /\ last_draw' = [kind |-> "uniform", seg |-> seg_i, v |-> v]
          /\ AfterDraw(vals')
    /\ UNCHANGED <<segments, mvars, bvars, tvars>>

\* lines 90-92: x = rng.gauss(mean, sigma); vals.append(_clamp_int(x, p_min, p_max))
SampleDrawNormal ==
    /\ spc = "draw"
    /\ CurrentSeg.dist # "uniform"
    /\ \E x \in GaussDraws(CurrentSeg) :
          LET v == _clamp_int(x, CurrentSeg.p_min, CurrentSeg.p_max)
          IN  /\ vals' = ListAppend(vals, v)
              /\ last_draw' = [kind |-> "normal", seg |-> seg_i, x |-> x, v |-> v]
              /\ AfterDraw(vals')
    /\ UNCHANGED <<segments, mvars, bvars, tvars>>

NextSampler ==
    \/ SampleCall
    \/ SampleRaise
    \/ SampleSkipEmpty
    \/ SampleEnter
    \/ SampleDrawUniform
    \/ SampleDrawNormal

SpecSampler == InitSampler /\ [][NextSampler]_vars


(***************************************************************************)
(* Properties of the sampler                                               *)
(***************************************************************************)

\* the clamp-then-round order of the specification, with the code's round():
\* x is clamped into [lo, hi] first (quarter units), then rounded
ClampThenRound(x4, lo, hi) == round(Max2(4 * lo, Min2(x4, 4 * hi)))

\* rounding to the nearest integer with a tie away from zero
RoundHalfAway(x4) ==
    IF x4 >= 0 THEN (x4 + 2) \div 4 ELSE 0 - ((2 - x4) \div 4)

\* clamp-then-round with ties away from zero
ClampThenRoundHalfAway(x4, lo, hi) == RoundHalfAway(Max2(4 * lo, Min2(x4, 4 * hi)))

RECURSIVE BlockOffset(_)
BlockOffset(k) == IF k = 0 THEN 0 ELSE BlockOffset(k - 1) + segments[k].n

\* C10: a returning call returns exactly sum of seg.n values, segment k's
\* block at offset n_0 + ... + n_{k-1} with length n_k and every value of it
\* within segment k's bounds; a segment with n == 0 contributes an empty block
\* and raises nothing; each drawn value is appended at the end, so the output
\* stays in draw order.
C10_BlockLayout ==
    /\ spc = "returned" =>
          /\ sample_ret.kind = "return"
          /\ sample_ret.vals = vals
          /\ Len(sample_ret.vals) = BlockOffset(Len(segments))
          /\ \A k \in 1..Len(segments) :
                \A j \in 1..segments[k].n :
                    /\ segments[k].p_min <= sample_ret.vals[BlockOffset(k - 1) + j]
                    /\ sample_ret.vals[BlockOffset(k - 1) + j] <= segments[k].p_max
    /\ spc = "raised" =>
          /\ sample_ret.kind = "raise"
          /\ \E k \in 1..Len(segments) : _validate_segment(segments[k]) # "ok"
    /\ spc \in {"head", "draw"} =>
          Len(vals) = BlockOffset(seg_i) + (IF spc = "draw" THEN seg_k ELSE 0)
    /\ last_draw.kind # "none" => vals[Len(vals)] = last_draw.v

\* an empty first segment, then a block that is returned out of order
C10_Witness ==
    /\ spc = "returned"
    /\ Len(segments) >= 2
    /\ segments[1].n = 0
    /\ segments[2].n >= 2
    /\ sample_ret.vals[1] > sample_ret.vals[2]

\* the constraints on a segment that seg violates
ViolatedConstraints(seg) ==
    {c \in {"n >= 0"} : seg.n < 0}
    \cup {c \in {"p_min <= p_max"} : seg.p_min > seg.p_max}
    \cup {c \in {"dist"} : seg.dist \notin {"uniform", "normal"}}
    \cup {c \in {"p_min <= mean <= p_max"} :
              /\ seg.dist = "normal"
              /\ seg.mean # None
              /\ (seg.mean[1] < FloatOfInt(seg.p_min) \/ seg.mean[1] > FloatOfInt(seg.p_max))}
    \cup {c \in {"sd > 0"} : seg.dist = "normal" /\ seg.sd # None /\ seg.sd[1] <= 0}

\* the 0-based indices of the segments of the call that violate a constraint
OffendingIndices == {k \in 0..(Len(segments) - 1) : ViolatedConstraints(segments[k + 1]) # {}}

\* C18: a call of sample_from_segments whose segment sequence contains a
\* segment violating a constraint never returns; when it fails, the error
\* names the index of the lowest-index offending segment and a constraint
\* that segment violates, and it carries no values, also when values of
\* earlier segments were drawn before the offending segment was reached.
C18_FirstOffendingSegment ==
    /\ spc = "returned" => OffendingIndices = {}
    /\ spc \in {"head", "draw"} => \A k \in OffendingIndices : k >= seg_i
    /\ spc = "draw" => seg_i \notin OffendingIndices
    /\ spc = "raised" =>
          /\ DOMAIN sample_ret = {"kind", "index", "constraint"}
          /\ sample_ret.kind = "raise"
          /\ sample_ret.index \in OffendingIndices
          /\ \A k \in OffendingIndices : sample_ret.index <= k
          /\ sample_ret.constraint \in ViolatedConstraints(segments[sample_ret.index + 1])

\* the second segment is the offending one, after draws for the first
C18_Witness ==
    /\ spc = "raised"
    /\ sample_ret.index = 1
    /\ sample_ret.constraint = "sd > 0"
    /\ vals # <<>>

\* C20: a raw normal draw exactly halfway between the integers k and k + 1,
\* k >= 0, inside the segment's bounds, gives k + 1, for even and for odd k.
C20_TiesAwayFromZero ==
    (/\ last_draw.kind = "normal"
     /\ last_draw.x >= 0
     /\ last_draw.x % 4 = 2
     /\ 4 * segments[last_draw.seg + 1].p_min <= last_draw.x
     /\ last_draw.x <= 4 * segments[last_draw.seg + 1].p_max)
        => last_draw.v = (last_draw.x \div 4) + 1


(***************************************************************************)
(* MarketParams and Segment as request models (backend/models.py), with    *)
(* the limits of backend/config.py                                         *)
(***************************************************************************)
max_buyers == 100
max_sellers == 100
max_segments == 3
max_price == 1000

\* a MarketParams request; seed is an int or None, buyer_segments and
\* seller_segments are a list of segments or None
Params(nb, ns, min_wtp, max_wtp, min_cost, max_cost, seed, bsegs, ssegs) ==
    [num_buyers |-> nb, num_sellers |-> ns,
     min_wtp |-> min_wtp, max_wtp |-> max_wtp,
     min_cost |-> min_cost, max_cost |-> max_cost,
     seed |-> seed, buyer_segments |-> bsegs, seller_segments |-> ssegs]

\* Python truth of an Optional[List]: neither None nor the empty list
Truthy(opt) == opt # None /\ opt[1] # <<>>

RECURSIVE SumN(_)
SumN(segs) == IF segs = <<>> THEN 0 ELSE segs[1].n + SumN(Tail(segs))

\* max(seg.p_max for seg in segs) and min(seg.p_min for seg in segs), segs non-empty
MaxPMax(segs) ==
    CHOOSE m \in {segs[i].p_max : i \in 1..Len(segs)} :
        \A i \in 1..Len(segs) : segs[i].p_max <= m
MinPMin(segs) ==
    CHOOSE m \in {segs[i].p_min : i \in 1..Len(segs)} :
        \A i \in 1..Len(segs) : segs[i].p_min >= m

\* Segment: the field constraints and validate_price_range
SegmentAccepts(seg) ==
    /\ 0 <= seg.n /\ seg.n <= max_buyers
    /\ 0 <= seg.p_min /\ seg.p_min <= max_price
    /\ 0 <= seg.p_max /\ seg.p_max <= max_price
    /\ seg.dist \in {"uniform", "normal"}
    /\ seg.mean # None => (0 <= seg.mean[1] /\ seg.mean[1] <= FloatOfInt(max_price))
    /\ seg.sd # None => seg.sd[1] > 0
    /\ seg.p_min <= seg.p_max
    /\ (seg.dist = "normal" /\ seg.mean # None) =>
          (FloatOfInt(seg.p_min) <= seg.mean[1] /\ seg.mean[1] <= FloatOfInt(seg.p_max))

\* an Optional[List[Segment]] field with max_length
SegmentsFieldAccepts(opt) ==
    opt # None =>
        /\ Len(opt[1]) <= max_segments
        /\ \A i \in 1..Len(opt[1]) : SegmentAccepts(opt[1][i])

\* MarketParams: the constraints declared on the fields
FieldsAccept(p) ==
    /\ 1 <= p.num_buyers /\ p.num_buyers <= max_buyers
    /\ 1 <= p.num_sellers /\ p.num_sellers <= max_sellers
    /\ 0 <= p.min_wtp /\ p.min_wtp <= max_price
    /\ 0 <= p.max_wtp /\ p.max_wtp <= max_price
    /\ 0 <= p.min_cost /\ p.min_cost <= max_price
    /\ 0 <= p.max_cost /\ p.max_cost <= max_price
    /\ SegmentsFieldAccepts(p.buyer_segments)
    /\ SegmentsFieldAccepts(p.seller_segments)

\* a post-init that checks no legacy range
model_post_init_unchecked(p) == "ok"

\* MarketParams.model_post_init: the legacy range of a side without segments
model_post_init(p) ==
    IF ~Truthy(p.buyer_segments) /\ p.max_wtp <= p.min_wtp THEN "max_wtp > min_wtp"
    ELSE IF ~Truthy(p.seller_segments) /\ p.max_cost <= p.min_cost THEN "max_cost > min_cost"
    ELSE "ok"

\* a feasibility check that looks at segmented markets only
_check_market_feasibility_segments_only(p) ==
    IF Truthy(p.buyer_segments) /\ Truthy(p.seller_segments)
       /\ MaxPMax(p.buyer_segments[1]) < MinPMin(p.seller_segments[1])
    THEN "no trades possible"
    ELSE "ok"

\* MarketParams._check_market_feasibility
_check_market_feasibility(p) ==
    IF Truthy(p.buyer_segments) /\ Truthy(p.seller_segments)
    THEN IF MaxPMax(p.buyer_segments[1]) < MinPMin(p.seller_segments[1])
         THEN "no trades possible" ELSE "ok"
    ELSE IF ~Truthy(p.buyer_segments) /\ ~Truthy(p.seller_segments)
    THEN IF p.max_wtp < p.min_cost THEN "no trades possible" ELSE "ok"
    ELSE "ok"

\* the segment count and population total of one side
SideTotalsError(opt, limit) ==
    IF ~Truthy(opt) THEN "ok"
    ELSE IF ~(1 <= Len(opt[1]) /\ Len(opt[1]) <= max_segments) THEN "segment count"
    ELSE IF SumN(opt[1]) > limit THEN "total participants"
    ELSE "ok"

\* MarketParams.validate_segments_and_feasibility
validate_segments_and_feasibility(p) ==
    IF SideTotalsError(p.buyer_segments, max_buyers) # "ok"
    THEN SideTotalsError(p.buyer_segments, max_buyers)
    ELSE IF SideTotalsError(p.seller_segments, max_sellers) # "ok"
    THEN SideTotalsError(p.seller_segments, max_sellers)
    ELSE _check_market_feasibility(p)

\* MarketParams(**data): "ok", or the reason of the validation error.  The
\* field constraints come first, model_post_init runs when the fields are
\* set, and the "after" validator runs last.
MarketParamsValidate(p) ==
    IF ~FieldsAccept(p) THEN "field"
    ELSE IF model_post_init(p) # "ok" THEN model_post_init(p)
    ELSE validate_segments_and_feasibility(p)


(***************************************************************************)
(* The random source.  A random.Random object is a position in a stream:   *)
(* the stream is fixed by the seed (or, for seed None, by the entropy the  *)
(* object took when it was made), the position by the calls made so far.   *)
(* What a stream gives at a position is not known beforehand; it is chosen *)
(* when first observed and is the same whenever observed again.            *)
(***************************************************************************)

\* a generator that takes fresh entropy whatever the seed
StreamOfEntropy(seed, r, n) == [seed |-> None, run |-> r, attempt |-> n]

\* random.Random(seed), made by attempt n of run r
StreamOf(seed, r, n) ==
    IF seed # None THEN [seed |-> seed, run |-> "any", attempt |-> 0]
    ELSE [seed |-> None, run |-> r, attempt |-> n]

\* every run drawing from the hidden instance of the random module
RngHandleGlobal(r) == "global"

\* line 113, rng = random.Random(params.seed): an object local to the call
RngHandle(r) == r

\* rng.randint(a, b)
RandIntCall(a, b) == [fn |-> "randint", a |-> a, b |-> b, mean |-> None, sd |-> None]

\* lines 86-91, rng.gauss(mean, sigma) for a normal segment: mean defaults to
\* the midpoint (half units), sigma to max(1.0, span / 6.0), a function of
\* the bounds
GaussCall(seg) ==
    [fn |-> "gauss", a |-> seg.p_min, b |-> seg.p_max,
     mean |-> IF seg.mean # None THEN seg.mean ELSE Some(Midpoint(seg.p_min, seg.p_max)),
     sd |-> seg.sd]

\* what the call can give: an int for randint, a raw draw (quarter units) for gauss
DrawRange(call) ==
    IF call.fn = "randint" THEN RandInts(call.a, call.b)
    ELSE GaussDraws([p_min |-> call.a, p_max |-> call.b])

\* the value appended to the population for that draw
DrawnValue(call, raw) ==
    IF call.fn = "randint" THEN raw ELSE _clamp_int(raw, call.a, call.b)

\* lines 78-92: the rng calls made for one valid segment
SegmentCalls(seg) ==
    [j \in 1..seg.n |-> IF seg.dist = "uniform" THEN RandIntCall(seg.p_min, seg.p_max)
                        ELSE GaussCall(seg)]

\* lines 64-95: the rng calls sample_from_segments makes, in order; they end
\* before the first segment that fails _validate_segment
RECURSIVE SampleCalls(_)
SampleCalls(segs) ==
    IF segs = <<>> THEN <<>>
    ELSE IF _validate_segment(segs[1]) # "ok" THEN <<>>
    ELSE SegmentCalls(segs[1]) \o SampleCalls(Tail(segs))

\* lines 69-73: None, or the ValueError of the first segment that fails
SampleError(segs) ==
    LET bad == {i \in 1..Len(segs) : _validate_segment(segs[i]) # "ok"}
    IN  IF bad = {} THEN None
        ELSE LET i == CHOOSE i \in bad : \A j \in bad : i <= j
             IN  Some([error |-> "Invalid segment", index |-> i - 1,
                       constraint |-> _validate_segment(segs[i])])

(***************************************************************************)
(* build_buyers_and_sellers (backend/market.py), the legacy builders, and  *)
(* the run of simulate_market (backend/main.py)                            *)
(***************************************************************************)

\* sellers generated before buyers
BuildOrderSellersFirst == <<"sellers", "buyers">>

\* lines 115-133: the buyers block, then the sellers block
BuildOrder == <<"buyers", "sellers">>

SideSegments(p, side) == IF side = "buyers" THEN p.buyer_segments ELSE p.seller_segments
SideCount(p, side) == IF side = "buyers" THEN p.num_buyers ELSE p.num_sellers
SideMin(p, side) == IF side = "buyers" THEN p.min_wtp ELSE p.min_cost
SideMax(p, side) == IF side = "buyers" THEN p.max_wtp ELSE p.max_cost

\* a side that always generates from its legacy count and range
SideCallsLegacyOnly(p, side) ==
    [j \in 1..SideCount(p, side) |-> RandIntCall(SideMin(p, side), SideMax(p, side))]

\* lines 116-123 and 126-133: the rng calls made for one side
SideCalls(p, side) ==
    IF Truthy(SideSegments(p, side)) THEN SampleCalls(SideSegments(p, side)[1])
    ELSE IF SideCount(p, side) <= 0 \/ SideMin(p, side) > SideMax(p, side) THEN <<>>
    ELSE [j \in 1..SideCount(p, side) |-> RandIntCall(SideMin(p, side), SideMax(p, side))]

\* a side that accepts an empty population
SideErrorNever(p, side, generated) == None

\* lines 116-123 and 126-133: None, or the ValueError that ends the side;
\* randint raises ValueError on an empty range
SideError(p, side, generated) ==
    IF Truthy(SideSegments(p, side))
    THEN IF SampleError(SideSegments(p, side)[1]) # None
         THEN SampleError(SideSegments(p, side)[1])
         ELSE IF generated = <<>>
              THEN Some([error |-> "segments resulted in zero participants", side |-> side])
              ELSE None
    ELSE IF SideCount(p, side) <= 0
         THEN Some([error |-> "number must be > 0", side |-> side])
         ELSE IF SideMin(p, side) > SideMax(p, side)
              THEN Some([error |-> "empty range for randint", side |-> side])
              ELSE None

\* l without its element at position i
RemoveAt(l, i) == SubSeq(l, 1, i - 1) \o SubSeq(l, i + 1, Len(l))

\* a sort that ignores reverse
RECURSIVE sorted_ascending(_, _)
sorted_ascending(l, reverse) ==
    IF l = <<>> THEN <<>>
    ELSE LET i == CHOOSE i \in 1..Len(l) : \A j \in 1..Len(l) : l[i] <= l[j]
         IN  <<l[i]>> \o sorted_ascending(RemoveAt(l, i), reverse)

\* lines 136-137: sorted(l) and sorted(l, reverse=True) of a list of ints
RECURSIVE sorted(_, _)
sorted(l, reverse) ==
    IF l = <<>> THEN <<>>
    ELSE LET i == CHOOSE i \in 1..Len(l) :
                      \A j \in 1..Len(l) : IF reverse THEN l[i] >= l[j] ELSE l[i] <= l[j]
         IN  <<l[i]>> \o sorted(RemoveAt(l, i), reverse)

\* a request: the endpoint's MarketParams, or the arguments of a direct call
\* of build_buyers / build_sellers held in the fields of the same name
Request(entry, p) == [entry |-> entry, params |-> p]

SideList(r, side) == IF side = "buyers" THEN buyers[r] ELSE sellers[r]

\* simulate_market(params): FastAPI builds MarketParams from the request body
\* before the handler runs; a validation error ends the request
Construct(r) ==
    /\ rpc[r] = "request"
    /\ request[r].entry = "simulate"
    /\ LET verdict == MarketParamsValidate(request[r].params)
       IN  IF verdict = "ok"
           THEN /\ rpc' = [rpc EXCEPT ![r] = "validated"]
                /\ outcome' = outcome
           ELSE /\ rpc' = [rpc EXCEPT ![r] = "rejected"]
                /\ outcome' = [outcome EXCEPT ![r] =
                                  Some([status |-> "rejected", error |-> verdict])]
    /\ UNCHANGED <<request, attempt, side_k, buyers, sellers, schedules, previous,
                   rngs, oracle, draw_log, mvars, svars, tvars>>

\* market.py line 113: rng = random.Random(params.seed)
BuildCall(r) ==
    /\ rpc[r] = "validated"
    /\ rngs' = [rngs EXCEPT ![RngHandle(r)] =
                   Some([stream |-> StreamOf(request[r].params.seed, r, attempt[r]),
                         calls |-> <<>>])]
    /\ rpc' = [rpc EXCEPT ![r] = BuildOrder[1]]
    /\ side_k' = [side_k EXCEPT ![r] = 0]
    /\ UNCHANGED <<request, attempt, buyers, sellers, schedules, outcome, previous,
                   oracle, draw_log, mvars, svars, tvars>>

\* one rng call of the run and the append that uses it: the generator of
\* handle h moves one call on and gives what its stream holds there
Draw(r, h, call, side) ==
    LET key == [stream |-> rngs[h][1].stream, calls |-> Append(rngs[h][1].calls, call)]
    IN  \E raw \in DrawRange(call) :
            /\ key \in DOMAIN oracle => raw = oracle[key]
            /\ oracle' = IF key \in DOMAIN oracle THEN oracle ELSE oracle @@ (key :> raw)
            /\ rngs' = [rngs EXCEPT ![h] = Some([stream |-> key.stream, calls |-> key.calls])]
            /\ draw_log' = [draw_log EXCEPT ![r] =
                               Append(@, [side |-> side, stream |-> key.stream,
                                          ordinal |-> Len(key.calls),
                                          value |-> DrawnValue(call, raw)])]
            /\ IF side = "buyers"
               THEN /\ buyers' = [buyers EXCEPT ![r] = ListAppend(@, DrawnValue(call, raw))]
                    /\ sellers' = sellers
               ELSE /\ sellers' = [sellers EXCEPT ![r] = ListAppend(@, DrawnValue(call, raw))]
                    /\ buyers' = buyers

\* market.py lines 116-123 and 126-133: the next value of the side
SideDraw(r) ==
    /\ rpc[r] \in {"buyers", "sellers"}
    /\ side_k[r] < Len(SideCalls(request[r].params, rpc[r]))
    /\ Draw(r, RngHandle(r), SideCalls(request[r].params, rpc[r])[side_k[r] + 1], rpc[r])
    /\ side_k' = [side_k EXCEPT ![r] = @ + 1]
    /\ UNCHANGED <<request, rpc, attempt, schedules, outcome, previous, mvars, svars, tvars>>

\* market.py lines 118, 121, 128, 131 (and line 73): the side ends in ValueError;
\* main.py lines 174-176 turn it into an error response
SideFail(r) ==
    /\ rpc[r] \in {"buyers", "sellers"}
    /\ side_k[r] = Len(SideCalls(request[r].params, rpc[r]))
    /\ SideError(request[r].params, rpc[r], SideList(r, rpc[r])) # None
    /\ rpc' = [rpc EXCEPT ![r] = "failed"]
    /\ outcome' = [outcome EXCEPT ![r] =
                      Some([status |-> "failed",
                            error |-> SideError(request[r].params, rpc[r],
                                                SideList(r, rpc[r]))[1]])]
    /\ UNCHANGED <<request, attempt, side_k, buyers, sellers, schedules, previous,
                   rngs, oracle, draw_log, mvars, svars, tvars>>

\* market.py line 125: the first side is complete, the second begins
SideNext(r) ==
    /\ rpc[r] = BuildOrder[1]
    /\ side_k[r] = Len(SideCalls(request[r].params, rpc[r]))
    /\ SideError(request[r].params, rpc[r], SideList(r, rpc[r])) = None
    /\ rpc' = [rpc EXCEPT ![r] = BuildOrder[2]]
    /\ side_k' = [side_k EXCEPT ![r] = 0]
    /\ UNCHANGED <<request, attempt, buyers, sellers, schedules, outcome, previous,
                   rngs, oracle, draw_log, mvars, svars, tvars>>

\* market.py lines 135-144: both sides are complete, the sorted pair is returned
BuildReturn(r) ==
    /\ rpc[r] = BuildOrder[2]
    /\ side_k[r] = Len(SideCalls(request[r].params, rpc[r]))
    /\ SideError(request[r].params, rpc[r], SideList(r, rpc[r])) = None
    /\ schedules' = [schedules EXCEPT ![r] =
                        Some([demand |-> sorted(buyers[r], TRUE),
                              supply |-> sorted(sellers[r], FALSE)])]
    /\ rpc' = [rpc EXCEPT ![r] = "built"]
    /\ UNCHANGED <<request, attempt, side_k, buyers, sellers, outcome, previous,
                   rngs, oracle, draw_log, mvars, svars, tvars>>

\* main.py lines 137-143: equilibrium and surplus of the built schedules
Simulate(r) ==
    /\ rpc[r] = "built"
    /\ LET d == schedules[r][1].demand
           su == schedules[r][1].supply
           eq == find_equilibrium(d, su)
           ts == SimulateSurplus(d, su, eq)
       IN  outcome' = [outcome EXCEPT ![r] =
                          IF EquilibriumAccepts(eq) /\ SurplusAccepts(ts)
                          THEN Some([status |-> "ok", equilibrium |-> eq,
                                     total_surplus |-> ts])
                          ELSE Some([status |-> "error"])]
    /\ rpc' = [rpc EXCEPT ![r] = "done"]
    /\ UNCHANGED <<request, attempt, side_k, buyers, sellers, schedules, previous,
                   rngs, oracle, draw_log, mvars, svars, tvars>>

\* the side a direct call of a legacy builder generates
LegacySide(entry) == IF entry = "build_buyers" THEN "buyers" ELSE "sellers"

\* market.py lines 151-154 and 162-165: None, or the ValueError of the arguments
LegacyArgsError(p, side) ==
    IF SideCount(p, side) <= 0
    THEN Some([error |-> "number must be > 0", side |-> side])
    ELSE IF SideMax(p, side) <= SideMin(p, side)
    THEN Some([error |-> "max must be > min", side |-> side])
    ELSE None

\* market.py lines 149-157 and 160-168, build_buyers(...) / build_sellers(...):
\* the arguments are checked, then the function makes its own random.Random(seed)
LegacyCall(r) ==
    /\ rpc[r] = "request"
    /\ request[r].entry # "simulate"
    /\ IF LegacyArgsError(request[r].params, LegacySide(request[r].entry)) # None
       THEN /\ rpc' = [rpc EXCEPT ![r] = "failed"]
            /\ outcome' = [outcome EXCEPT ![r] =
                  Some([status |-> "failed",
                        error |-> LegacyArgsError(request[r].params,
                                                  LegacySide(request[r].entry))[1]])]
            /\ rngs' = rngs
       ELSE /\ rpc' = [rpc EXCEPT ![r] = "legacy"]
            /\ outcome' = outcome
            /\ rngs' = [rngs EXCEPT ![RngHandle(r)] =
                           Some([stream |-> StreamOf(request[r].params.seed, r, attempt[r]),
                                 calls |-> <<>>])]
    /\ side_k' = [side_k EXCEPT ![r] = 0]
    /\ UNCHANGED <<request, attempt, buyers, sellers, schedules, previous,
                   oracle, draw_log, mvars, svars, tvars>>

\* market.py lines 157 and 168: the next rng.randint(min, max) of the comprehension
LegacyDraw(r) ==
    /\ rpc[r] = "legacy"
    /\ side_k[r] < SideCount(request[r].params, LegacySide(request[r].entry))
    /\ Draw(r, RngHandle(r),
            RandIntCall(SideMin(request[r].params, LegacySide(request[r].entry)),
                        SideMax(request[r].params, LegacySide(request[r].entry))),
            LegacySide(request[r].entry))
    /\ side_k' = [side_k EXCEPT ![r] = @ + 1]
    /\ UNCHANGED <<request, rpc, attempt, schedules, outcome, previous, mvars, svars, tvars>>

\* market.py lines 157 and 168: the list is returned, unsorted
LegacyReturn(r) ==
    /\ rpc[r] = "legacy"
    /\ side_k[r] = SideCount(request[r].params, LegacySide(request[r].entry))
    /\ rpc' = [rpc EXCEPT ![r] = "done"]
    /\ outcome' = [outcome EXCEPT ![r] =
                      Some([status |-> "ok",
                            values |-> SideList(r, LegacySide(request[r].entry))])]
    /\ UNCHANGED <<request, attempt, side_k, buyers, sellers, schedules, previous,
                   rngs, oracle, draw_log, mvars, svars, tvars>>

\* what a finished attempt has produced
Produced(r) ==
    [buyers |-> buyers[r], sellers |-> sellers[r],
     schedules |-> schedules[r], outcome |-> outcome[r]]

Finished(r) == rpc[r] \in {"rejected", "failed", "done"}

\* the same request is executed a second time; what the first attempt
\* produced is kept
RunAgain(r) ==
    /\ Finished(r)
    /\ previous[r] = None
    /\ previous' = [previous EXCEPT ![r] = Some(Produced(r))]
    /\ attempt' = [attempt EXCEPT ![r] = @ + 1]
    /\ rpc' = [rpc EXCEPT ![r] = "request"]
    /\ side_k' = [side_k EXCEPT ![r] = 0]
    /\ buyers' = [buyers EXCEPT ![r] = <<>>]
    /\ sellers' = [sellers EXCEPT ![r] = <<>>]
    /\ schedules' = [schedules EXCEPT ![r] = None]
    /\ outcome' = [outcome EXCEPT ![r] = None]
    /\ draw_log' = [draw_log EXCEPT ![r] = <<>>]
    /\ UNCHANGED <<request, rngs, oracle, mvars, svars, tvars>>

(***************************************************************************)
(* Requests of the model                                                   *)
(***************************************************************************)

\* legacy ranges: two proper ones that do not overlap, an empty and a reversed one
LegacyRanges == {<<0, 1>>, <<LegacyTop - 1, LegacyTop>>, <<1, 1>>, <<1, 0>>}

\* segment lists of a side: two blocks, blocks without participants, a block
\* above every other, and a list with a segment that Segment rejects
SideSegmentLists ==
    { <<Seg(1, 0, 1, "uniform", None, None),
        Seg(1, SegMaxPrice, SegMaxPrice, "normal", None, None)>>,
      <<Seg(0, 0, 1, "uniform", None, None),
        Seg(0, SegMaxPrice, SegMaxPrice, "normal", None, None)>>,
      <<Seg(1, SegMaxPrice + 1, SegMaxPrice + 1, "uniform", None, None)>>,
      <<Seg(1, 1, 0, "uniform", None, None)>> }

\* one side of a request: count, min, max and segments
SideSpec(num, lo, hi, segs) == [num |-> num, lo |-> lo, hi |-> hi, segs |-> segs]

\* sides without segments: any count and range, the list absent or empty
LegacySides ==
    { SideSpec(num, rg[1], rg[2], None) : num \in 0..MaxCount, rg \in LegacyRanges }
    \cup { SideSpec(1, 0, 1, Some(<<>>)) }

\* sides with segments, beside a proper, an improper and a countless legacy part
SegmentSides ==
    { SideSpec(lg[1], lg[2], lg[3], Some(l)) :
          lg \in {<<1, 0, 1>>, <<1, 1, 0>>, <<0, 0, 1>>}, l \in SideSegmentLists }

Seeds == {None, Some(1)}

ParamsOf(b, sl, seed) ==
    Params(b.num, sl.num, b.lo, b.hi, sl.lo, sl.hi, seed, b.segs, sl.segs)

\* the requests of a single run: every pairing of two sides, and the direct
\* calls of the legacy builders
BuildRequests ==
    { Request("simulate", ParamsOf(b, sl, seed)) :
          b \in LegacySides \cup SegmentSides,
          sl \in LegacySides \cup SegmentSides,
          seed \in Seeds }
    \cup { Request(entry, ParamsOf(b, b, seed)) :
               entry \in {"build_buyers", "build_sellers"},
               b \in {x \in LegacySides : x.segs = None},
               seed \in Seeds }

MatcherIdle ==
    /\ demand = <<>>
    /\ supply = <<>>
    /\ pc = "idle"
    /\ equilibrium = None
    /\ q_star = None
    /\ total_surplus = None

SamplerIdle ==
    /\ segments = <<>>
    /\ spc = "idle"
    /\ seg_i = 0
    /\ seg_k = 0
    /\ vals = <<>>
    /\ last_draw = [kind |-> "none"]
    /\ sample_ret = [kind |-> "none"]

\* the runs named in S have received their requests, the others stay off
RunsStart(S, reqs) ==
    /\ request = [r \in Runs |-> IF r \in S THEN reqs[r] ELSE None]
    /\ rpc = [r \in Runs |-> IF r \in S THEN "request" ELSE "off"]
    /\ attempt = [r \in Runs |-> IF r \in S THEN 1 ELSE 0]
    /\ side_k = [r \in Runs |-> 0]
    /\ buyers = [r \in Runs |-> <<>>]
    /\ sellers = [r \in Runs |-> <<>>]
    /\ schedules = [r \in Runs |-> None]
    /\ outcome = [r \in Runs |-> None]
    /\ previous = [r \in Runs |-> None]
    /\ rngs = [h \in RngHandles |-> None]
    /\ oracle = <<>>
    /\ draw_log = [r \in Runs |-> <<>>]
    /\ MatcherIdle
    /\ SamplerIdle
    /\ ToolsIdle

(***************************************************************************)
(* One request, from its arrival to its response                           *)
(***************************************************************************)
InitBuild == \E q \in BuildRequests : RunsStart({"a"}, [r \in Runs |-> q])

NextBuild ==
    \/ \E r \in Runs : Construct(r)
    \/ \E r \in Runs : BuildCall(r)
    \/ \E r \in Runs : SideDraw(r)
    \/ \E r \in Runs : SideFail(r)
    \/ \E r \in Runs : SideNext(r)
    \/ \E r \in Runs : BuildReturn(r)
    \/ \E r \in Runs : Simulate(r)
    \/ \E r \in Runs : LegacyCall(r)
    \/ \E r \in Runs : LegacyDraw(r)
    \/ \E r \in Runs : LegacyReturn(r)

SpecBuild == InitBuild /\ [][NextBuild]_vars


(***************************************************************************)
(* Properties of the builder                                               *)
(***************************************************************************)

\* run r executes simulate_market
Simulating(r) == rpc[r] # "off" /\ request[r].entry = "simulate"

\* the values of the log entries of one side, in log order
RECURSIVE LoggedValues(_, _)
LoggedValues(log, side) ==
    IF log = <<>> THEN <<>>
    ELSE IF log[1].side = side THEN <<log[1].value>> \o LoggedValues(Tail(log), side)
    ELSE LoggedValues(Tail(log), side)

\* C12: within one call of build_buyers_and_sellers every draw comes from one
\* random source, the one made from params.seed at the start of the call,
\* whose state advances by one call per draw; every buyer draw precedes every
\* seller draw, and seller generation starts only when all buyer draws are
\* made, so the first seller draw continues from the state the buyers left.
C12_BuyersBeforeSellers ==
    \A r \in Runs : Simulating(r) =>
        LET log == draw_log[r]
            p == request[r].params
        IN  /\ \A i \in 1..Len(log) :
                  /\ log[i].ordinal = i
                  /\ log[i].stream = StreamOf(p.seed, r, attempt[r])
            /\ \A i \in 1..Len(log) : \A j \in i..Len(log) :
                  ~(log[i].side = "sellers" /\ log[j].side = "buyers")
            /\ buyers[r] = LoggedValues(log, "buyers")
            /\ sellers[r] = LoggedValues(log, "sellers")
            /\ rpc[r] = "buyers" => sellers[r] = <<>>
            /\ rpc[r] \in {"sellers", "built", "done"} =>
                  Len(buyers[r]) = Len(SideCalls(p, "buyers"))
            /\ sellers[r] # <<>> =>
                  log[Len(buyers[r]) + 1].side = "sellers"

\* mixed mode: buyers from segments, sellers from the legacy range
C12_Witness ==
    \E r \in Runs :
        /\ Simulating(r)
        /\ rpc[r] = "built"
        /\ Truthy(request[r].params.buyer_segments)
        /\ ~Truthy(request[r].params.seller_segments)
        /\ Len(buyers[r]) = 2
        /\ Len(sellers[r]) = 2
        /\ draw_log[r][3].side = "sellers"
        /\ draw_log[r][3].ordinal = 3

\* the number of positions of l that hold v
CountOf(l, v) == Cardinality({i \in 1..Len(l) : l[i] = v})

IsPermutation(l, m) ==
    /\ Len(l) = Len(m)
    /\ \A i \in 1..Len(l) : CountOf(l, l[i]) = CountOf(m, l[i])

\* C13: whenever build_buyers_and_sellers returns, demand is sorted
\* non-increasing and supply non-decreasing, and each is a permutation (same
\* length, same multiset) of the values generated for its side.
C13_SortedPermutation ==
    \A r \in Runs : (Simulating(r) /\ schedules[r] # None) =>
        LET d == schedules[r][1].demand
            su == schedules[r][1].supply
        IN  /\ \A i \in 1..(Len(d) - 1) : d[i] >= d[i + 1]
            /\ \A i \in 1..(Len(su) - 1) : su[i] <= su[i + 1]
            /\ IsPermutation(d, buyers[r])
            /\ IsPermutation(su, sellers[r])

\* both sides were generated in the opposite of their sorted order
C13_Witness ==
    \E r \in Runs :
        /\ Simulating(r)
        /\ schedules[r] # None
        /\ Len(buyers[r]) = 2 /\ buyers[r][1] < buyers[r][2]
        /\ Len(sellers[r]) = 2 /\ sellers[r][1] > sellers[r][2]
        /\ schedules[r][1].demand[1] > schedules[r][1].demand[2]
        /\ schedules[r][1].supply[1] < schedules[r][1].supply[2]

\* the side's generation has ended without an error
SideComplete(r, side) ==
    IF side = "buyers" THEN rpc[r] \in {"sellers", "built", "done"}
    ELSE rpc[r] \in {"built", "done"}

\* l holds, block after block, segs[k].n values within the bounds of segs[k]
InBlocks(l, segs) ==
    /\ Len(l) = SumN(segs)
    /\ \A k \in 1..Len(segs) : \A j \in 1..segs[k].n :
          LET v == l[SumN(SubSeq(segs, 1, k - 1)) + j]
          IN  segs[k].p_min <= v /\ v <= segs[k].p_max

\* the legacy fields of every side that has segments replaced by the defaults
\* MarketParams declares for them
WithLegacyDefaults(p) ==
    LET b == Truthy(p.buyer_segments)
        sl == Truthy(p.seller_segments)
    IN  Params(IF b THEN 10 ELSE p.num_buyers, IF sl THEN 10 ELSE p.num_sellers,
               IF b THEN 10 ELSE p.min_wtp, IF b THEN 40 ELSE p.max_wtp,
               IF sl THEN 5 ELSE p.min_cost, IF sl THEN 35 ELSE p.max_cost,
               p.seed, p.buyer_segments, p.seller_segments)

NobodyIn(p, side) ==
    Truthy(SideSegments(p, side)) /\ SumN(SideSegments(p, side)[1]) = 0

\* C15: a side whose non-empty segment list yields zero participants makes
\* build_buyers_and_sellers fail with an error that names that side (the
\* buyers' error first when both sides are empty), and a failed build returns
\* no schedules; every build that returns, returns two non-empty schedules.
C15_EmptyPopulationIsError ==
    \A r \in Runs : Simulating(r) =>
        LET p == request[r].params
        IN  /\ NobodyIn(p, "buyers") => rpc[r] \in {"request", "rejected", "validated",
                                                    "buyers", "failed"}
            /\ NobodyIn(p, "sellers") => rpc[r] \notin {"built", "done"}
            /\ (rpc[r] = "failed" /\ NobodyIn(p, "buyers")) =>
                  outcome[r][1].error =
                      [error |-> "segments resulted in zero participants", side |-> "buyers"]
            /\ (rpc[r] = "failed" /\ ~NobodyIn(p, "buyers")) =>
                  /\ NobodyIn(p, "sellers")
                  /\ outcome[r][1].error =
                        [error |-> "segments resulted in zero participants", side |-> "sellers"]
            /\ rpc[r] \in {"failed", "rejected"} => schedules[r] = None
            /\ schedules[r] # None =>
                  /\ schedules[r][1].demand # <<>>
                  /\ schedules[r][1].supply # <<>>

\* the sellers' segments hold nobody; the buyers had been generated by then
C15_Witness ==
    \E r \in Runs :
        /\ Simulating(r)
        /\ rpc[r] = "failed"
        /\ outcome[r][1].error.side = "sellers"
        /\ buyers[r] # <<>>
        /\ schedules[r] = None

\* both sides use their legacy parameters and no trade is possible
LegacyInfeasible(p) ==
    /\ ~Truthy(p.buyer_segments)
    /\ ~Truthy(p.seller_segments)
    /\ p.max_wtp < p.min_cost

\* nothing of build_buyers_and_sellers has happened for run r
NothingSampled(r) ==
    /\ rngs[r] = None
    /\ draw_log[r] = <<>>
    /\ buyers[r] = <<>>
    /\ sellers[r] = <<>>
    /\ schedules[r] = None

\* C16: a request with legacy parameters on both sides and max_wtp < min_cost
\* is rejected when MarketParams is built: it never reaches
\* build_buyers_and_sellers or the matcher, no random source is made for it
\* and no value is sampled.
C16_InfeasibleLegacyRejected ==
    \A r \in Runs : (Simulating(r) /\ LegacyInfeasible(request[r].params)) =>
        /\ rpc[r] \in {"request", "rejected"}
        /\ NothingSampled(r)
        /\ outcome[r] # None => outcome[r][1].status = "rejected"

\* proper counts and ranges, rejected for infeasibility alone
C16_Witness ==
    \E r \in Runs :
        /\ Simulating(r)
        /\ LegacyInfeasible(request[r].params)
        /\ rpc[r] = "rejected"
        /\ outcome[r][1].error = "no trades possible"

\* the legacy count or range of the side is improper
ImproperLegacy(p, side) == SideCount(p, side) <= 0 \/ SideMax(p, side) <= SideMin(p, side)

\* C17: a request with an improper legacy side (count <= 0 or max <= min on a
\* side without segments) is rejected when MarketParams is built, before
\* build_buyers_and_sellers; build_buyers / build_sellers called with such
\* arguments raise before making their random source; in both cases nothing
\* is generated, and every legacy side that is generated from has count >= 1
\* and max > min.
C17_ImproperLegacyRejected ==
    \A r \in Runs : rpc[r] # "off" =>
        LET p == request[r].params
        IN  IF request[r].entry = "simulate"
            THEN \A side \in {"buyers", "sellers"} :
                    (~Truthy(SideSegments(p, side)) /\ ImproperLegacy(p, side)) =>
                        /\ rpc[r] \in {"request", "rejected"}
                        /\ NothingSampled(r)
            ELSE ImproperLegacy(p, LegacySide(request[r].entry)) =>
                    /\ rpc[r] \in {"request", "failed"}
                    /\ NothingSampled(r)
                    /\ outcome[r] # None => outcome[r][1].status = "failed"

\* a reversed range on the sellers' side, rejected by model_post_init
C17_Witness ==
    \E r \in Runs :
        /\ Simulating(r)
        /\ rpc[r] = "rejected"
        /\ outcome[r][1].error = "max_cost > min_cost"
        /\ request[r].params.num_sellers >= 1
        /\ ~ImproperLegacy(request[r].params, "buyers")


(***************************************************************************)
(* Two runs at once, each executing its request twice                      *)
(***************************************************************************)

\* the sides of the requests of concurrent runs: a legacy side, and buyers
\* from two segments, or from a segment that holds nobody
RunLegacySide == SideSpec(1, 0, 1, None)
RunSegmentSide ==
    SideSpec(1, 0, 0, Some(<<Seg(1, 0, 1, "uniform", None, None),
                             Seg(1, SegMaxPrice - 1, SegMaxPrice, "uniform", None, None)>>))
RunNobodySide == SideSpec(1, 0, 1, Some(<<Seg(0, 0, 1, "uniform", None, None)>>))

\* the requests of concurrent runs: equal and different parameters under
\* equal and different seeds and without a seed, and a legacy builder
RunRequests ==
    { Request("simulate", ParamsOf(RunLegacySide, RunLegacySide, Some(1))),
      Request("simulate", ParamsOf(RunLegacySide, RunLegacySide, None)),
      Request("simulate", ParamsOf(RunSegmentSide, RunLegacySide, Some(1))),
      Request("simulate", ParamsOf(RunSegmentSide, RunLegacySide, Some(2))),
      Request("simulate", ParamsOf(RunNobodySide, RunLegacySide, Some(1))),
      Request("build_buyers", ParamsOf(RunLegacySide, RunLegacySide, Some(1))) }

InitRuns == \E reqs \in [Runs -> RunRequests] : RunsStart(Runs, reqs)

NextRuns ==
    \/ \E r \in Runs : Construct(r)
    \/ \E r \in Runs : BuildCall(r)
    \/ \E r \in Runs : SideDraw(r)
    \/ \E r \in Runs : SideFail(r)
    \/ \E r \in Runs : SideNext(r)
    \/ \E r \in Runs : BuildReturn(r)
    \/ \E r \in Runs : Simulate(r)
    \/ \E r \in Runs : LegacyCall(r)
    \/ \E r \in Runs : LegacyDraw(r)
    \/ \E r \in Runs : LegacyReturn(r)
    \/ \E r \in Runs : RunAgain(r)

SpecRuns == InitRuns /\ [][NextRuns]_vars


(***************************************************************************)
(* Properties of repeated and concurrent runs                              *)
(***************************************************************************)

Seeded(r) == rpc[r] # "off" /\ request[r].params.seed # None

\* C11: a finished attempt of a seeded request has produced what the earlier
\* attempt of the same request produced, whatever the other run did in
\* between, and two runs with equal seeded requests that have both finished
\* have produced the same: the same generated value sequences, the same
\* (demand, supply) pair, the same equilibrium and surplus, or the same error.
C11_SameSeedSameOutput ==
    /\ \A r \in Runs : (Seeded(r) /\ Finished(r) /\ previous[r] # None) =>
          Produced(r) = previous[r][1]
    /\ \A r1 \in Runs : \A r2 \in Runs :
          (Seeded(r1) /\ Finished(r1) /\ Finished(r2) /\ request[r1] = request[r2]) =>
              Produced(r1) = Produced(r2)

\* the second attempt of a segment request has returned schedules, and the
\* other run has drawn from a generator of the same seed for other parameters
C11_Witness ==
    /\ rpc["a"] = "done"
    /\ previous["a"] # None
    /\ Seeded("a")
    /\ Truthy(request["a"].params.buyer_segments)
    /\ schedules["a"] # None
    /\ buyers["a"][1] # buyers["a"][2]
    /\ request["b"].params.seed = request["a"].params.seed
    /\ request["b"] # request["a"]
    /\ draw_log["b"] # <<>>

\* the stream of the generator that attempt attempt[r] of run r makes
OwnStream(r) == StreamOf(request[r].params.seed, r, attempt[r])

\* what has been observed of a stream after the first i calls of a call sequence
Observed(stream, calls, i) == [stream |-> stream, calls |-> SubSeq(calls, 1, i)] \in DOMAIN oracle

\* the value a fresh generator of the stream gives at the i-th of the calls
ValueAt(stream, calls, i) ==
    DrawnValue(calls[i], oracle[[stream |-> stream, calls |-> SubSeq(calls, 1, i)]])

\* the rng calls the request of run r makes when it is executed alone
CallsAlone(r) ==
    LET q == request[r]
        p == q.params
    IN  IF q.entry # "simulate"
        THEN IF LegacyArgsError(p, LegacySide(q.entry)) # None THEN <<>>
             ELSE [j \in 1..SideCount(p, LegacySide(q.entry)) |->
                      RandIntCall(SideMin(p, LegacySide(q.entry)),
                                  SideMax(p, LegacySide(q.entry)))]
        ELSE IF MarketParamsValidate(p) # "ok" THEN <<>>
        ELSE LET bcalls == SideCalls(p, "buyers")
                 bvals == [i \in 1..Len(bcalls) |-> 0]
             IN  IF SideError(p, "buyers", bvals) # None THEN bcalls
                 ELSE bcalls \o SideCalls(p, "sellers")

\* what the request of run r produces when it is executed alone, its draws
\* read off the streams
ProducedAlone(r) ==
    LET q == request[r]
        p == q.params
        calls == CallsAlone(r)
        drawn == [i \in 1..Len(calls) |-> ValueAt(OwnStream(r), calls, i)]
    IN  IF q.entry # "simulate"
        THEN LET side == LegacySide(q.entry)
                 err == LegacyArgsError(p, side)
             IN  [buyers |-> IF side = "buyers" THEN drawn ELSE <<>>,
                  sellers |-> IF side = "sellers" THEN drawn ELSE <<>>,
                  schedules |-> None,
                  outcome |-> IF err # None
                              THEN Some([status |-> "failed", error |-> err[1]])
                              ELSE Some([status |-> "ok", values |-> drawn])]
        ELSE IF MarketParamsValidate(p) # "ok"
        THEN [buyers |-> <<>>, sellers |-> <<>>, schedules |-> None,
              outcome |-> Some([status |-> "rejected", error |-> MarketParamsValidate(p)])]
        ELSE LET nb == Len(SideCalls(p, "buyers"))
                 bvals == SubSeq(drawn, 1, Min2(nb, Len(drawn)))
                 svals == SubSeq(drawn, nb + 1, Len(drawn))
                 berr == SideError(p, "buyers", bvals)
                 serr == SideError(p, "sellers", svals)
                 d == sorted(bvals, TRUE)
                 su == sorted(svals, FALSE)
                 eq == find_equilibrium(d, su)
             IN  IF berr # None
                 THEN [buyers |-> bvals, sellers |-> <<>>, schedules |-> None,
                       outcome |-> Some([status |-> "failed", error |-> berr[1]])]
                 ELSE IF serr # None
                 THEN [buyers |-> bvals, sellers |-> svals, schedules |-> None,
                       outcome |-> Some([status |-> "failed", error |-> serr[1]])]
                 ELSE [buyers |-> bvals, sellers |-> svals,
                       schedules |-> Some([demand |-> d, supply |-> su]),
                       outcome |-> Some([status |-> "ok", equilibrium |-> eq,
                                         total_surplus |-> SimulateSurplus(d, su, eq)])]

\* C19: the hidden generator of the random module is never touched; the
\* generator a run draws from is its own, made from its own seed, and has
\* moved by that run's draws only; and under every interleaving a finished
\* run has produced the populations, (demand, supply), equilibrium and
\* surplus, or the error, that its request produces when executed alone.
C19_RunsIndependent ==
    /\ rngs["global"] = None
    /\ \A r \in Runs : (rpc[r] \in {"buyers", "sellers", "legacy"}) =>
          /\ rngs[r] # None
          /\ rngs[r][1].stream = OwnStream(r)
          /\ rngs[r][1].calls = SubSeq(CallsAlone(r), 1, Len(draw_log[r]))
    /\ \A r \in Runs : (rpc[r] # "off" /\ Finished(r)) =>
          /\ \A i \in 1..Len(CallsAlone(r)) : Observed(OwnStream(r), CallsAlone(r), i)
          /\ Produced(r) = ProducedAlone(r)

\* both runs are inside build_buyers_and_sellers with draws made, under the
\* same seed with different parameters
C19_Witness ==
    /\ rpc["a"] = "sellers"
    /\ rpc["b"] = "sellers"
    /\ request["a"].params.seed = request["b"].params.seed
    /\ request["a"] # request["b"]
    /\ Len(draw_log["a"]) = 3
    /\ Len(draw_log["b"]) = 2


(***************************************************************************)
(* create_schedule_table and analyze_market_structure (backend/market.py)  *)
(***************************************************************************)

\* the number of times the two tables are produced from the same schedules
Passes == 2

\* a table numbered from 0
create_schedule_table_zero_based(values) ==
    [i \in 1..Len(values) |-> [q |-> i - 1, p |-> values[i]]]

\* lines 286-299; position i of the model is index i - 1 of the code, so
\* "q": i + 1 of the code is q |-> i here
create_schedule_table(values) ==
    IF values = <<>> THEN <<>>
    ELSE [i \in 1..Len(values) |-> [q |-> i, p |-> values[i]]]

\* min(values), max(values), sum(values) of a non-empty list
Elements(values) == {values[i] : i \in DOMAIN values}
MinOf(values) == CHOOSE v \in Elements(values) : \A w \in Elements(values) : v <= w
MaxOf(values) == CHOOSE v \in Elements(values) : \A w \in Elements(values) : v >= w
RECURSIVE SumOf(_)
SumOf(values) == IF values = <<>> THEN 0 ELSE values[1] + SumOf(Tail(values))

\* a / b of two integers, b > 0, kept as the exact fraction
TrueDiv(a, b) == [num |-> a, den |-> b]

\* the potential trades taken from the demand side alone
PotentialTradesDemandSize(d, s) == Len(d)

\* line 320
PotentialTrades(d, s) == Min2(Len(d), Len(s))

\* lines 315-321
AnalysisBase(d, s) ==
    [demand_size |-> Len(d),
     supply_size |-> Len(s),
     demand_range |-> IF d # <<>> THEN <<MinOf(d), MaxOf(d)>> ELSE <<0, 0>>,
     supply_range |-> IF s # <<>> THEN <<MinOf(s), MaxOf(s)>> ELSE <<0, 0>>,
     potential_trades |-> PotentialTrades(d, s)]

\* lines 304-335
analyze_market_structure(d, s) ==
    LET base == AnalysisBase(d, s)
    IN  IF d # <<>> /\ s # <<>>
        THEN LET eq == find_equilibrium(d, s)
             IN  [demand_size |-> base.demand_size,
                  supply_size |-> base.supply_size,
                  demand_range |-> base.demand_range,
                  supply_range |-> base.supply_range,
                  potential_trades |-> base.potential_trades,
                  demand_avg |-> TrueDiv(SumOf(d), Len(d)),
                  supply_avg |-> TrueDiv(SumOf(s), Len(s)),
                  price_overlap |-> (d[1] >= s[1]),
                  equilibrium_quantity |-> eq.quantity,
                  equilibrium_price |-> eq.price,
                  market_efficiency |->
                      IF base.potential_trades > 0
                      THEN TrueDiv(eq.quantity, base.potential_trades)
                      ELSE TrueDiv(0, 1)]
        ELSE base

(***************************************************************************)
(* find_equilibrium of the script revision (market_supply_demand.py)       *)
(***************************************************************************)

\* lines 81-89: the same pairwise scan with "else: break"
ScriptScan(d, s) ==
    ScanFrom(d, s, 1, [matches |-> 0, last_wtp |-> None, last_cost |-> None])

\* lines 62-100
script_find_equilibrium(d, s) ==
    LET st == ScriptScan(d, s)
    IN  IF st.matches = 0
        THEN [quantity |-> 0,
              price |-> IF d # <<>> /\ s # <<>>
                        THEN Midpoint(d[1], s[1]) ELSE FloatOfInt(0)]
        ELSE [quantity |-> st.matches,
              price |-> Midpoint(st.last_wtp, st.last_cost)]

(***************************************************************************)
(* The matcher, its script revision, the analyzer and the formatter called *)
(* on the same pair of schedules                                           *)
(***************************************************************************)

\* matches, price = find_equilibrium(demand, supply) of the script
ScriptFindEquilibrium ==
    /\ pc # "input"
    /\ script_eq = None
    /\ script_eq' = Some(script_find_equilibrium(demand, supply))
    /\ UNCHANGED <<mvars, svars, bvars, return_site, tables, analysis>>

\* analysis = analyze_market_structure(demand, supply)
AnalyzeMarketStructure ==
    /\ script_eq # None
    /\ analysis = None
    /\ analysis' = Some(analyze_market_structure(demand, supply))
    /\ UNCHANGED <<mvars, svars, bvars, return_site, tables, script_eq>>

\* main.py lines 146-149: the demand table, then the supply table
CreateScheduleTable ==
    /\ analysis # None
    /\ Len(tables) < 2 * Passes
    /\ LET values == IF Len(tables) % 2 = 0 THEN demand ELSE supply
       IN  tables' = Append(tables,
               [values |-> values, table |-> create_schedule_table(values)])
    /\ UNCHANGED <<mvars, svars, bvars, return_site, analysis, script_eq>>

NextTools ==
    \/ FindEquilibrium
    \/ ScriptFindEquilibrium
    \/ AnalyzeMarketStructure
    \/ CreateScheduleTable

SpecTools == Init /\ [][NextTools]_vars

(***************************************************************************)
(* The return sites of find_equilibrium and the partial-trade price        *)
(***************************************************************************)

\* C24: once the fast paths do not apply (both schedules non-empty and
\* demand[0] >= supply[0]) the scan records at least one match, so
\* find_equilibrium never leaves by the "matches == 0" return after the scan,
\* and quantity 0 is returned only by the empty-side returns and by the
\* demand[0] < supply[0] return.
C24_ScanAlwaysMatches ==
    return_site # "none" =>
        /\ return_site # "no_match"
        /\ (demand # <<>> /\ supply # <<>> /\ demand[1] >= supply[1]) =>
              /\ equilibrium.quantity >= 1
              /\ return_site \in {"full", "partial"}
        /\ equilibrium.quantity = 0 => return_site \in {"empty", "infeasible"}

\* the scan ran, matched the first pair at equal prices and stopped
C24_Witness ==
    /\ return_site = "partial"
    /\ demand[1] = supply[1]
    /\ equilibrium.quantity = 1

\* C25: in a partial trade on sorted schedules the price is at most the last
\* matched buyer's valuation demand[Q-1] and strictly below the first
\* unmatched seller's cost supply[Q]; it can be below the last matched
\* seller's cost supply[Q-1].
C25_PartialPriceBounds ==
    (Matched /\ SortedDemand /\ SortedSupply
        /\ equilibrium.quantity > 0 /\ equilibrium.quantity < NComparable) =>
        LET Q == equilibrium.quantity
        IN  /\ equilibrium.price <= FloatOfInt(demand[Q])
            /\ equilibrium.price < FloatOfInt(supply[Q + 1])

\* a partial trade on sorted schedules priced below the last matched seller's cost
C25_Witness ==
    /\ Matched /\ SortedDemand /\ SortedSupply
    /\ equilibrium.quantity > 0
    /\ equilibrium.quantity < NComparable
    /\ equilibrium.price < FloatOfInt(supply[equilibrium.quantity])

(***************************************************************************)
(* Properties of the formatter, the analyzer and the script revision       *)
(***************************************************************************)

\* the number of comparable positions whose pair matches
MatchingPairs == Cardinality({i \in 1..NComparable : demand[i] >= supply[i]})

PartialTrade == equilibrium.quantity > 0 /\ equilibrium.quantity < NComparable

\* C21: create_schedule_table(values) has the length of values and entry i
\* (0-based) is {q: i + 1, p: values[i]}: quantities 1..len(values) in
\* increasing order, prices in input order, neither sorted nor deduplicated;
\* empty input gives empty output and the same input gives the same output.
C21_TableShape ==
    /\ \A k \in DOMAIN tables :
          LET values == tables[k].values
              table == tables[k].table
          IN  /\ Len(table) = Len(values)
              /\ DOMAIN table = 1..Len(values)
              /\ \A i \in 1..Len(values) :
                    /\ DOMAIN table[i] = {"q", "p"}
                    /\ table[i].q = i
                    /\ table[i].p = values[i]
              /\ values = <<>> => table = <<>>
    /\ \A k1, k2 \in DOMAIN tables :
          tables[k1].values = tables[k2].values => tables[k1].table = tables[k2].table

\* the same unsorted list with a repeated price formatted twice
C21_Witness ==
    \E k1, k2 \in DOMAIN tables :
        LET values == tables[k1].values
        IN  /\ k1 < k2
            /\ tables[k2].values = values
            /\ \E i \in 1..(Len(values) - 1) : values[i] < values[i + 1]
            /\ \E i \in 1..(Len(values) - 1) : values[i] > values[i + 1]
            /\ \E i, j \in 1..Len(values) : i # j /\ values[i] = values[j]

\* C22: early termination is sound on sorted schedules: with demand
\* non-increasing and supply non-decreasing, after a pair that fails to match
\* no later pair matches, so the quantity returned by find_equilibrium (the
\* backend's and the script's) is the number of comparable positions whose
\* pair matches.
C22_EarlyTerminationSound ==
    (SortedDemand /\ SortedSupply) =>
        /\ \A k \in 1..NComparable :
              demand[k] < supply[k] =>
                  \A j \in (k + 1)..NComparable : demand[j] < supply[j]
        /\ Matched => equilibrium.quantity = MatchingPairs
        /\ script_eq # None => script_eq[1].quantity = MatchingPairs

\* sorted schedules, both scans stopped with two or more pairs left unvisited
C22_Witness ==
    /\ SortedDemand /\ SortedSupply
    /\ Matched
    /\ script_eq # None
    /\ equilibrium.quantity >= 1
    /\ equilibrium.quantity + 2 <= NComparable

\* C23: for non-empty demand and supply analyze_market_structure reports
\* potential_trades = min(len(demand), len(supply)), the quantity and price
\* of find_equilibrium, market_efficiency = equilibrium_quantity /
\* potential_trades within [0, 1], and price_overlap exactly when the
\* reported equilibrium_quantity is at least 1.
C23_AnalyzerConsistent ==
    (analysis # None /\ demand # <<>> /\ supply # <<>>) =>
        LET a == analysis[1]
        IN  /\ a.potential_trades = NComparable
            /\ a.equilibrium_quantity = equilibrium.quantity
            /\ a.equilibrium_price = equilibrium.price
            /\ a.market_efficiency =
                  TrueDiv(a.equilibrium_quantity, a.potential_trades)
            /\ a.market_efficiency.den > 0
            /\ 0 <= a.market_efficiency.num
            /\ a.market_efficiency.num <= a.market_efficiency.den
            /\ a.price_overlap = (demand[1] >= supply[1])
            /\ a.price_overlap <=> a.equilibrium_quantity >= 1

\* schedules of different lengths analysed, efficiency strictly between 0 and 1
C23_Witness ==
    /\ analysis # None
    /\ demand # <<>> /\ supply # <<>>
    /\ Len(demand) > Len(supply)
    /\ analysis[1].price_overlap
    /\ analysis[1].market_efficiency.num > 0
    /\ analysis[1].market_efficiency.num < analysis[1].market_efficiency.den

\* C26: the script's and the backend's find_equilibrium agree on quantity for
\* every pair of schedules, and on price when both schedules are non-empty
\* and the outcome is no trade or a full trade; their prices differ only in
\* a partial trade or when exactly one schedule is empty.
C26_ScriptAgreesWithBackend ==
    (Matched /\ script_eq # None) =>
        LET script == script_eq[1]
        IN  /\ script.quantity = equilibrium.quantity
            /\ (demand # <<>> /\ supply # <<>> /\ ~PartialTrade) =>
                  script.price = equilibrium.price
            /\ script.price # equilibrium.price =>
                  \/ demand # <<>> /\ supply # <<>> /\ PartialTrade
                  \/ (demand = <<>>) # (supply = <<>>)

\* a partial trade on sorted schedules that the two revisions price differently
C26_Witness ==
    /\ Matched
    /\ script_eq # None
    /\ SortedDemand /\ SortedSupply
    /\ PartialTrade
    /\ script_eq[1].quantity = equilibrium.quantity
    /\ script_eq[1].price # equilibrium.price

====
